---- MODULE Spec2Model ----
(***************************************************************************)
(* Model of strlinebuf's LineBuffer<CAPACITY> (src/src/lib.rs): a fixed    *)
(* capacity ring buffer of bytes with terminator-delimited line reads.     *)
(*                                                                         *)
(* Every public method is one action.  read_line_bytes is translated loop  *)
(* iteration by loop iteration (Scan).  Besides the fields of the struct   *)
(* the model carries the const generic CAPACITY the buffer was built with, *)
(* the caller's aux_buffer, the last call, its return value and the number *)
(* of loop passes it took, and one history variable, held: the bytes that  *)
(* were pushed with Ok and have not been consumed by an Ok read nor        *)
(* discarded by clear.  An index out of bounds is the result "Panic".      *)
(*                                                                         *)
(* The caller is the one of the tests: it reads into a zeroed aux_buffer   *)
(* (let mut aux_buffer = [0u8; N]) that it declares after its pushes, and  *)
(* keeps that buffer for reads that follow one another directly.           *)
(***************************************************************************)
EXTENDS Integers, Sequences, FiniteSets

\* ---------------------------------------------------------------- bounds
\* the largest const CAPACITY: usize that LineBuffer<CAPACITY> is built with
CAPACITY == 3
\* longest slice handed to push_bytes
MaxPush == 2

\* ------------------------------------------------------- byte constants
CR == 13
LF == 10
NUL == 0
\* b'A', the data byte of the tests
DataByte == 65

Terminator ==
    {"None", "CarriageReturn", "Newline", "NULL",
     "CarriageReturnNewline", "NewlineCarriageReturn"}

\* The byte sequence a terminator variant stands for.
TerminatorBytes(t) ==
    CASE t = "None" -> << >>
      [] t = "CarriageReturn" -> <<CR>>
      [] t = "Newline" -> <<LF>>
      [] t = "NULL" -> <<NUL>>
      [] t = "CarriageReturnNewline" -> <<CR, LF>>
      [] t = "NewlineCarriageReturn" -> <<LF, CR>>

TerminatorLen(t) == Len(TerminatorBytes(t))

\* Bytes a caller pushes: the terminator's own bytes and one data byte (for
\* None, which has no terminator bytes, a second byte so that order shows).
InputBytes(t) ==
    {TerminatorBytes(t)[i] : i \in 1..TerminatorLen(t)} \cup {DataByte}
        \cup (IF t = "None" THEN {LF} ELSE {})

\* Sequences over S of length 0..n
RECURSIVE SeqsUpTo(_, _)
SeqsUpTo(S, n) ==
    IF n = 0 THEN {<< >>}
    ELSE LET shorter == SeqsUpTo(S, n - 1)
         IN shorter \cup {Append(q, b) : q \in {x \in shorter : Len(x) = n - 1}, b \in S}

\* ------------------------------------------------------------------ state
VARIABLES
    buffer,      \* self.buffer: [u8; CAPACITY]
    start,       \* self.start
    end,         \* self.end
    empty,       \* self.empty
    terminator,  \* self.config.terminator
    aux_buffer,  \* the caller's aux_buffer: [u8; CAPACITY]
    capacity,    \* the const generic CAPACITY of this LineBuffer
    held,        \* history: bytes pushed with Ok and not yet consumed
    op,          \* the last method called
    result,      \* what it returned
    passes       \* passes of the loop of read_line_bytes in the last call

vars == <<buffer, start, end, empty, terminator, aux_buffer, capacity, held,
          op, result, passes>>

\* Positions of [u8; CAPACITY]
Index == 0..(capacity - 1)

\* The struct as a value.
Self == [buffer |-> buffer, start |-> start, end |-> end, empty |-> empty,
         terminator |-> terminator, capacity |-> capacity]

Ok(n) == [kind |-> "Ok", n |-> n]
Err(e) == [kind |-> e, n |-> 0]
\* the bool of is_empty() / is_full()
Bool(b) == [kind |-> "Bool", n |-> IF b THEN 1 ELSE 0]

\* ---------------------------------------------------------------- queries
is_empty(self) == self.empty

is_full(self) == ~self.empty /\ self.start = self.end

\* ------------------------------------------------------------- push_byte
\* push_byte as the comment of line 113 imagines it with allow_overwrites: a
\* full buffer takes the byte over its oldest one and start moves on.
push_byteOverwrites(self, byte) ==
    IF self.end >= self.capacity
    THEN [self |-> [self EXCEPT !.empty = FALSE], res |-> Err("Panic")]
    ELSE [self |-> [self EXCEPT !.empty = FALSE,
                                !.buffer = [self.buffer EXCEPT ![self.end] = byte],
                                !.end = (self.end + 1) % self.capacity,
                                !.start = IF is_full(self)
                                          THEN (self.start + 1) % self.capacity
                                          ELSE self.start],
          res |-> Ok(0)]

\* Returns the struct after the call and the Result.  self.buffer[self.end]
\* with end outside the array (CAPACITY = 0) is an index out of bounds: a
\* panic, after line 121 has run.
push_byte(self, byte) ==
    IF is_full(self)
    THEN [self |-> self, res |-> Err("BufferFull")]
    ELSE IF self.end >= self.capacity
    THEN [self |-> [self EXCEPT !.empty = FALSE], res |-> Err("Panic")]
    ELSE [self |-> [self EXCEPT !.empty = FALSE,
                                !.buffer = [self.buffer EXCEPT ![self.end] = byte],
                                !.end = (self.end + 1) % self.capacity],
          res |-> Ok(0)]

\* ------------------------------------------------------------ push_bytes
\* for byte in bytes { self.push_byte(*byte)?; }   written = bytes pushed Ok
RECURSIVE push_bytes_from(_, _, _)
push_bytes_from(self, bytes, i) ==
    IF i > Len(bytes)
    THEN [self |-> self, res |-> Ok(0), written |-> i - 1]
    ELSE LET r == push_byte(self, bytes[i])
         IN IF r.res.kind # "Ok"
            THEN [self |-> r.self, res |-> r.res, written |-> i - 1]
            ELSE push_bytes_from(r.self, bytes, i + 1)

push_bytes(self, bytes) == push_bytes_from(self, bytes, 1)

\* ------------------------------------------------------------------ clear
\* clear without its `self.end = 0`
clearKeepsEnd(self) == [self EXCEPT !.start = 0, !.empty = TRUE]

clear(self) == [self EXCEPT !.start = 0, !.end = 0, !.empty = TRUE]

\* -------------------------------------------------------- read_line_bytes
\* The match arms of lines 165-218: does the terminator start at position s?
TerminatorFound(self, s, next_byte) ==
    CASE self.terminator = "None" -> FALSE
      [] self.terminator = "Newline" -> next_byte = LF
      [] self.terminator = "CarriageReturn" -> next_byte = CR
      [] self.terminator = "NULL" -> next_byte = NUL
      [] self.terminator = "CarriageReturnNewline" ->
            /\ next_byte = CR
            /\ s # self.end
            /\ self.buffer[(s + 1) % self.capacity] = LF
      [] self.terminator = "NewlineCarriageReturn" ->
            /\ next_byte = LF
            /\ s # self.end
            /\ self.buffer[(s + 1) % self.capacity] = CR

\* TerminatorBreak without the `% CAPACITY` of the advance.
TerminatorBreakNoWrap(self, s, bytes_read, aux, iters) ==
    LET s2 == s + TerminatorLen(self.terminator)
    IN [self |-> [self EXCEPT !.start = s2,
                              !.empty = IF s2 = self.end THEN TRUE ELSE self.empty],
        aux |-> aux, res |-> Ok(bytes_read), iters |-> iters]

\* Lines 169-173 (and the same in every arm): step over the terminator, break.
TerminatorBreak(self, s, bytes_read, aux, iters) ==
    LET s2 == (s + TerminatorLen(self.terminator)) % self.capacity
    IN [self |-> [self EXCEPT !.start = s2,
                              !.empty = IF s2 = self.end THEN TRUE ELSE self.empty],
        aux |-> aux, res |-> Ok(bytes_read), iters |-> iters]

\* ScanExhausted without its `if let Terminator::None` test: every variant
\* rewinds and reports NoLines.
ScanExhaustedAlwaysNoLines(self, s2, bytes_read, aux, initial_start, iters) ==
    [self |-> [self EXCEPT !.start = initial_start, !.empty = TRUE],
     aux |-> aux, res |-> Err("NoLines"), iters |-> iters]

\* Lines 224-232: start has caught up with end after a copied byte.
ScanExhausted(self, s2, bytes_read, aux, initial_start, iters) ==
    IF self.terminator = "None"
    THEN [self |-> [self EXCEPT !.start = s2, !.empty = TRUE],
          aux |-> aux, res |-> Ok(bytes_read), iters |-> iters]
    ELSE [self |-> [self EXCEPT !.start = initial_start, !.empty = TRUE],
          aux |-> aux, res |-> Err("NoLines"), iters |-> iters]

\* The loop without the `if self.start == self.end` of lines 224-232: it
\* leaves only at a terminator, or by the panic of aux_buffer[CAPACITY].
RECURSIVE ScanWithoutExhaustionTest(_, _, _, _, _, _)
ScanWithoutExhaustionTest(self, s, bytes_read, aux, initial_start, iters) ==
    LET next_byte == self.buffer[s]
    IN IF TerminatorFound(self, s, next_byte)
       THEN TerminatorBreak(self, s, bytes_read, aux, iters)
       ELSE IF bytes_read >= self.capacity
       THEN [self |-> [self EXCEPT !.start = s], aux |-> aux,
             res |-> Err("Panic"), iters |-> iters]
       ELSE ScanWithoutExhaustionTest(self, (s + 1) % self.capacity, bytes_read + 1,
                                      [aux EXCEPT ![bytes_read] = next_byte],
                                      initial_start, iters + 1)

\* One pass of the loop of lines 163-233 with self.start = s, and the passes
\* after it.  aux_buffer[bytes_read] with bytes_read >= CAPACITY is an index
\* out of bounds: a panic.
RECURSIVE Scan(_, _, _, _, _, _)
Scan(self, s, bytes_read, aux, initial_start, iters) ==
    LET next_byte == self.buffer[s]
    IN IF TerminatorFound(self, s, next_byte)
       THEN TerminatorBreak(self, s, bytes_read, aux, iters)
       ELSE IF bytes_read >= self.capacity
       THEN [self |-> [self EXCEPT !.start = s], aux |-> aux,
             res |-> Err("Panic"), iters |-> iters]
       ELSE LET aux2 == [aux EXCEPT ![bytes_read] = next_byte]
                s2 == (s + 1) % self.capacity
            IN IF s2 = self.end
               THEN ScanExhausted(self, s2, bytes_read + 1, aux2, initial_start, iters)
               ELSE Scan(self, s2, bytes_read + 1, aux2, initial_start, iters + 1)

read_line_bytes(self, aux) ==
    IF is_empty(self)
    THEN [self |-> self, aux |-> aux, res |-> Err("BufferEmpty"), iters |-> 0]
    ELSE Scan(self, self.start, 0, aux, self.start, 1)

\* ---------------------------------------------------------------- history
\* The array has CAPACITY cells: a push the code accepts beyond that has
\* written over the oldest byte still held.
HeldPush(h, byte) ==
    IF Len(h) < capacity THEN Append(h, byte) ELSE Append(Tail(h), byte)

RECURSIVE HeldPushAll(_, _, _)
HeldPushAll(h, bytes, n) ==
    IF n = 0 THEN h ELSE HeldPush(HeldPushAll(h, bytes, n - 1), bytes[n])

\* An Ok(n) read has consumed n line bytes and the terminator.
HeldRead(h, t, res) ==
    IF res.kind = "Ok"
    THEN SubSeq(h, res.n + TerminatorLen(t) + 1, Len(h))
    ELSE h

\* ---------------------------------------------------------------- actions
\* let mut aux_buffer = [0u8; CAPACITY];
FreshAux == [i \in Index |-> 0]

Install(self) ==
    /\ buffer' = self.buffer
    /\ start' = self.start
    /\ end' = self.end
    /\ empty' = self.empty
    /\ terminator' = self.terminator
    /\ capacity' = self.capacity

\* A panic ends the program: nothing is called after it.
Running == result.kind # "Panic"

\* new() / new_with_config(config) of LineBuffer::<c>
New(c) ==
    /\ capacity = c
    /\ buffer = [i \in Index |-> 0]
    /\ start = 0
    /\ end = 0
    /\ empty = TRUE
    /\ terminator \in Terminator
    /\ aux_buffer = FreshAux
    /\ held = << >>
    /\ op = "new"
    /\ result = Ok(0)
    /\ passes = 0

Init == \E c \in 1..CAPACITY : New(c)

\* The type admits CAPACITY = 0 as well: nothing in new() rejects it.
InitAnyCapacity == \E c \in 0..CAPACITY : New(c)

PushByte ==
    /\ Running
    /\ passes' = 0
    /\ \E byte \in InputBytes(terminator) :
        LET r == push_byte(Self, byte)
        IN /\ Install(r.self)
           /\ held' = IF r.res.kind = "Ok" THEN HeldPush(held, byte) ELSE held
           /\ op' = "push_byte"
           /\ result' = r.res
           /\ aux_buffer' = FreshAux

PushBytes ==
    /\ Running
    /\ passes' = 0
    /\ \E bytes \in SeqsUpTo(InputBytes(terminator), MaxPush) :
        LET r == push_bytes(Self, bytes)
        IN /\ Install(r.self)
           /\ held' = HeldPushAll(held, bytes, r.written)
           /\ op' = "push_bytes"
           /\ result' = r.res
           /\ aux_buffer' = FreshAux

ReadLineBytes ==
    LET r == read_line_bytes(Self, aux_buffer)
    IN /\ Running
       /\ Install(r.self)
       /\ passes' = r.iters
       /\ aux_buffer' = r.aux
       /\ held' = HeldRead(held, terminator, r.res)
       /\ op' = "read_line_bytes"
       /\ result' = r.res

Clear ==
    /\ Running
    /\ passes' = 0
    /\ Install(clear(Self))
    /\ held' = << >>
    /\ op' = "clear"
    /\ result' = Ok(0)
    /\ aux_buffer' = FreshAux

\* is_empty(&self) and is_full(&self): the caller's aux_buffer stays as it is.
IsEmpty ==
    /\ Running
    /\ op' = "is_empty"
    /\ result' = Bool(is_empty(Self))
    /\ passes' = 0
    /\ UNCHANGED <<buffer, start, end, empty, terminator, capacity, aux_buffer, held>>

IsFull ==
    /\ Running
    /\ op' = "is_full"
    /\ result' = Bool(is_full(Self))
    /\ passes' = 0
    /\ UNCHANGED <<buffer, start, end, empty, terminator, capacity, aux_buffer, held>>

Next == PushByte \/ PushBytes \/ ReadLineBytes \/ Clear \/ IsEmpty \/ IsFull

Spec == Init /\ [][Next]_vars

SpecAnyCapacity == InitAnyCapacity /\ [][Next]_vars

\* ------------------------------------------------------------ type sanity
TypeOK ==
    /\ buffer \in [Index -> 0..255]
    /\ aux_buffer \in [Index -> 0..255]
    /\ empty \in BOOLEAN
    /\ terminator \in Terminator
    /\ Len(held) <= capacity
    /\ capacity \in 0..CAPACITY
    /\ passes \in 0..capacity

\* ------------------------------------------------------- claim vocabulary
\* The circular region from start to end: what the indices say is held.
HeldRegion(self) ==
    LET count == IF self.empty THEN 0
                 ELSE IF self.start = self.end THEN self.capacity
                 ELSE (self.end - self.start + self.capacity) % self.capacity
    IN [i \in 1..count |-> self.buffer[(self.start + i - 1) % self.capacity]]

Region == HeldRegion(Self)

\* Positions of h at which the terminator t occurs in full.
LineEnds(h, t) ==
    {i \in 1..Len(h) :
        /\ TerminatorLen(t) > 0
        /\ i + TerminatorLen(t) - 1 <= Len(h)
        /\ SubSeq(h, i, i + TerminatorLen(t) - 1) = TerminatorBytes(t)}

HasLine(h, t) == LineEnds(h, t) # {}

\* Number of bytes before the first occurrence of the terminator.
FirstLineLen(h, t) ==
    (CHOOSE i \in LineEnds(h, t) : \A j \in LineEnds(h, t) : i <= j) - 1

ReadStep == op' = "read_line_bytes"

\* The first n cells of the aux_buffer after the call are the sequence line.
AuxHolds(line) == \A i \in 1..Len(line) : aux_buffer'[i - 1] = line[i]

\* ------------------------------------------------------------------ claims

\* C1: read_line_bytes on a buffer that holds bytes but no complete
\* terminated line (terminator not None) returns NoLines and leaves start,
\* end and the empty flag as they were.
C1_NoLinesLeavesStateUnchanged ==
    [][(ReadStep /\ terminator # "None" /\ held # << >> /\ ~HasLine(held, terminator))
        => (/\ result'.kind = "NoLines"
            /\ start' = start
            /\ end' = end
            /\ empty' = empty)]_vars

\* C2: in every reachable state is_empty() is true exactly when no pushed
\* byte is left unconsumed.
C2_IsEmptyIffNothingHeld == is_empty(Self) <=> (held = << >>)

\* C3: in every reachable state is_full() is true exactly when CAPACITY
\* unconsumed bytes are held.
C3_IsFullIffCapacityHeld == is_full(Self) <=> (Len(held) = capacity)

\* C4: push_byte on a buffer holding CAPACITY unconsumed bytes returns
\* BufferFull and changes neither the storage nor start, end, empty.
C4_PushOnFullIsRejected ==
    [][(op' = "push_byte" /\ Len(held) = capacity)
        => (/\ result'.kind = "BufferFull"
            /\ UNCHANGED <<buffer, start, end, empty>>)]_vars

\* C5: read_line_bytes on a buffer holding zero bytes returns BufferEmpty
\* and changes neither the storage, start, end, empty nor the aux_buffer.
C5_ReadOnEmptyIsRejected ==
    [][(ReadStep /\ held = << >>)
        => (/\ result'.kind = "BufferEmpty"
            /\ UNCHANGED <<buffer, start, end, empty, aux_buffer>>)]_vars

\* C6: read_line_bytes returns BufferEmpty only when zero bytes are held,
\* and NoLines whenever bytes are held without a complete line, also on the
\* second and later of reads that follow one another.
C6_ReadErrorsAreStateAccurate ==
    [][ReadStep
        => (/\ result'.kind = "BufferEmpty" => held = << >>
            /\ (terminator # "None" /\ held # << >> /\ ~HasLine(held, terminator))
                 => result'.kind = "NoLines")]_vars

\* C7, C9: what a read that finds the first terminator of the held bytes
\* does: Ok(n) for the n bytes before it, those bytes in the aux_buffer, the
\* bytes after the terminator still held in order, empty iff none follow.
ReadsFirstLine ==
    LET n == FirstLineLen(held, terminator)
        rest == SubSeq(held, n + TerminatorLen(terminator) + 1, Len(held))
    IN /\ result' = Ok(n)
       /\ AuxHolds(SubSeq(held, 1, n))
       /\ Region' = rest
       /\ empty' <=> (rest = << >>)

\* C7: with a single-byte terminator among the held bytes, read_line_bytes
\* returns the bytes before its first occurrence, consumes them and the
\* terminator, and keeps every later byte held in order.
C7_SingleByteTerminatorLine ==
    [][(ReadStep /\ TerminatorLen(terminator) = 1 /\ HasLine(held, terminator))
        => ReadsFirstLine]_vars

\* C8: with a two-byte terminator read_line_bytes returns Ok only when both
\* terminator bytes, in order, are among the held bytes.
C8_TwoByteMatchOnlyOnHeldBytes ==
    [][(ReadStep /\ TerminatorLen(terminator) = 2 /\ result'.kind = "Ok")
        => HasLine(held, terminator)]_vars

\* C9: with a two-byte terminator among the held bytes, read_line_bytes
\* returns the bytes before its first occurrence and consumes them and both
\* terminator bytes, at every start position and also when the buffer is full.
C9_TwoByteTerminatorLine ==
    [][(ReadStep /\ TerminatorLen(terminator) = 2 /\ HasLine(held, terminator))
        => ReadsFirstLine]_vars

\* C10: with terminator None, read_line_bytes on a buffer holding k >= 1
\* bytes returns Ok(k), copies the k bytes in arrival order into the
\* aux_buffer and leaves the buffer empty; it never returns NoLines.
C10_NoneReadsEverything ==
    [][(ReadStep /\ terminator = "None" /\ held # << >>)
        => (/\ result' = Ok(Len(held))
            /\ AuxHolds(held)
            /\ is_empty(Self)'
            /\ Region' = << >>)]_vars

\* C10 witness: a None read has returned a full, wrapped buffer of two
\* different bytes.
C10_Witness ==
    /\ op = "read_line_bytes"
    /\ terminator = "None"
    /\ capacity = CAPACITY
    /\ result = Ok(CAPACITY)
    /\ start # 0
    /\ aux_buffer[0] # aux_buffer[1]
    /\ empty

\* C11: what the retry does in the current state: push the terminator, read
\* again into a zeroed aux_buffer; it succeeds with exactly the held bytes.
RetryReturnsHeld ==
    LET p == push_bytes(Self, TerminatorBytes(terminator))
        r == read_line_bytes(p.self, FreshAux)
    IN /\ p.res.kind = "Ok"
       /\ r.res = Ok(Len(held))
       /\ \A i \in 1..Len(held) : r.aux[i - 1] = held[i]

AfterNoLines == op = "read_line_bytes" /\ result.kind = "NoLines"

\* C11: after read_line_bytes has returned NoLines on a non-full buffer
\* (one with room for the terminator), appending the terminator and reading
\* again succeeds and returns exactly the bytes that were held when NoLines
\* was returned, in order.
C11_RetryAfterNoLines ==
    (AfterNoLines /\ Len(held) + TerminatorLen(terminator) <= capacity)
        => RetryReturnsHeld

\* C12: h is one line without a terminator byte followed by the terminator
\* (for None: a line of at least one byte), and fits the buffer.
IsOneTerminatedLine(h, t) ==
    LET L == Len(h) - TerminatorLen(t)
    IN /\ L >= (IF t = "None" THEN 1 ELSE 0)
       /\ Len(h) <= capacity
       /\ SubSeq(h, L + 1, Len(h)) = TerminatorBytes(t)
       /\ \A i \in 1..L : \A j \in 1..TerminatorLen(t) : h[i] # TerminatorBytes(t)[j]

\* C12: a read that follows the append of one line and its terminator to an
\* empty buffer (so that exactly that line is held), wherever start and end
\* have wrapped to, returns Ok(L) with the line's bytes and leaves the
\* buffer empty: the append/read cycle never returns an error.
C12_AppendReadCycle ==
    [][(ReadStep /\ IsOneTerminatedLine(held, terminator))
        => (/\ result' = Ok(Len(held) - TerminatorLen(terminator))
            /\ AuxHolds(SubSeq(held, 1, Len(held) - TerminatorLen(terminator)))
            /\ is_empty(Self)'
            /\ held' = << >>)]_vars

\* C13: what push_bytes(bytes) does in the current state, f being the free
\* space: a slice longer than f commits exactly its first f bytes, in order
\* from end on, and returns BufferFull; a slice that fits is appended whole
\* and returns Ok.  start and the cells it does not write stay as they are.
PushBytesCommitsPrefix(bytes) ==
    LET f == capacity - Len(held)
        n == IF Len(bytes) > f THEN f ELSE Len(bytes)
        r == push_bytes(Self, bytes)
        written == {(end + i - 1) % capacity : i \in 1..n}
    IN /\ r.res.kind = IF Len(bytes) > f THEN "BufferFull" ELSE "Ok"
       /\ r.written = n
       /\ \A i \in 1..n : r.self.buffer[(end + i - 1) % capacity] = bytes[i]
       /\ \A i \in Index \ written : r.self.buffer[i] = buffer[i]
       /\ r.self.end = (end + n) % capacity
       /\ r.self.start = start

\* C13: push_bytes is not atomic: it appends the bytes of the slice in order
\* until the buffer is full; of a slice with more bytes than the free space f
\* exactly the first f are committed and BufferFull is returned; a slice that
\* fits is appended whole and Ok is returned.
C13_PushBytesPartialCommit ==
    \A bytes \in SeqsUpTo(InputBytes(terminator), MaxPush) :
        PushBytesCommitsPrefix(bytes)

\* C14: clear() sets start = 0, end = 0, empty = true, so that is_empty() is
\* true and is_full() false, leaves the storage and the terminator as they
\* are, and a second clear changes nothing more.
C14_ClearResets ==
    [][op' = "clear"
        => (/\ start' = 0 /\ end' = 0 /\ empty' = TRUE
            /\ is_empty(Self)' /\ ~is_full(Self)'
            /\ buffer' = buffer
            /\ terminator' = terminator
            /\ clear(Self)' = Self'
            /\ clear(clear(Self)) = clear(Self))]_vars

\* C14 witness: clear has run on the largest buffer with every cell of the
\* storage written, and the storage is still there.
C14_Witness ==
    /\ op = "clear"
    /\ capacity = CAPACITY
    /\ \A i \in Index : buffer[i] # 0
    /\ start = 0 /\ end = 0 /\ empty

\* C15: the ring refines a FIFO byte queue: after every call the circular
\* region from start to end is the sequence of bytes pushed and not yet
\* consumed, and an Ok(n) read delivers the first n of them and consumes the
\* terminator that follows them.
C15_RefinesFifo ==
    [][(/\ Region' = held'
        /\ (ReadStep /\ result'.kind = "Ok")
             => (/\ result'.n + TerminatorLen(terminator) <= Len(held)
                 /\ AuxHolds(SubSeq(held, 1, result'.n))
                 /\ SubSeq(held, result'.n + 1, result'.n + TerminatorLen(terminator))
                      = TerminatorBytes(terminator)))]_vars

\* C16: for CAPACITY >= 1, start and end are positions of the array in every
\* reachable state: 0 <= start < CAPACITY and 0 <= end < CAPACITY.
C16_IndicesInRange ==
    /\ start \in 0..(capacity - 1)
    /\ end \in 0..(capacity - 1)

\* C16 witness: a two-byte terminator lying across the end of the largest
\* array has been matched at its first pass and start has wrapped to 1.
C16_Witness ==
    /\ op = "read_line_bytes"
    /\ capacity = CAPACITY
    /\ TerminatorLen(terminator) = 2
    /\ result = Ok(0)
    /\ passes = 1
    /\ start = 1
    /\ buffer[capacity - 1] = TerminatorBytes(terminator)[1]
    /\ buffer[0] = TerminatorBytes(terminator)[2]

\* C17: for CAPACITY >= 1 no call panics, and the count an Ok read returns
\* is at most the number of bytes held: at most CAPACITY with terminator
\* None, at most CAPACITY minus the terminator length otherwise.
C17_NoPanicAndCountBounded ==
    [][(/\ result'.kind # "Panic"
        /\ (ReadStep /\ result'.kind = "Ok")
             => (/\ result'.n <= Len(held)
                 /\ result'.n <= capacity - TerminatorLen(terminator)))]_vars

\* C18: read_line_bytes always returns: its loop is left by break or return
\* after at most CAPACITY passes, in every reachable state and for every
\* terminator.
C18_ReadTerminates ==
    /\ passes <= capacity
    /\ op = "read_line_bytes" => result.kind \in {"Ok", "BufferEmpty", "NoLines"}

\* C18 witness: a read of the largest buffer has needed all CAPACITY passes
\* and has returned an error.
C18_Witness ==
    /\ op = "read_line_bytes"
    /\ capacity = CAPACITY
    /\ passes = CAPACITY
    /\ result.kind = "NoLines"

\* C19: construction guarantees CAPACITY >= 1, so that no call on a
\* constructed buffer reaches an index out of range or a modulo by zero.
C19_NoPanicAfterConstruction == result.kind # "Panic"

\* C20: a successful push_byte changes only storage[end], end and empty;
\* read_line_bytes never changes end, the storage or the terminator;
\* is_empty() and is_full() change nothing.
C20_Frames ==
    [][(/\ (op' = "push_byte" /\ result'.kind = "Ok")
             => (/\ start' = start
                 /\ terminator' = terminator
                 /\ \A i \in Index \ {end} : buffer'[i] = buffer[i])
        /\ ReadStep
             => (/\ end' = end
                 /\ buffer' = buffer
                 /\ terminator' = terminator)
        /\ op' \in {"is_empty", "is_full"}
             => UNCHANGED <<buffer, start, end, empty, terminator, capacity>>)]_vars

\* C20 witness: a push_byte has returned Ok and filled the largest buffer,
\* whose start is not 0.
C20_Witness ==
    /\ op = "push_byte"
    /\ result.kind = "Ok"
    /\ capacity = CAPACITY
    /\ start # 0
    /\ is_full(Self)

====
